---- MODULE Spec2Model ----
(***************************************************************************)
(* A state-machine model of the retailMatch ETL: the normalization         *)
(* primitives of etl/utils.py, the four dataset adapters, the append-only  *)
(* sink, the command-line driver main.py and the offline converter         *)
(* wdc_generator.py.                                                       *)
(*                                                                         *)
(* Python str values are TLA+ strings.  The digest of md5_id is modelled   *)
(* by the byte string fed to it (MD5 is taken to be collision-free), and a *)
(* Python float by its shortest decimal text ("1234.0", "19.99").          *)
(***************************************************************************)
EXTENDS Integers, Sequences, FiniteSets, TLC

VARIABLES
    hparts,     \* md5_id: the two argument tuples under comparison
    hdigest,    \* md5_id: the digests returned for them
    hpc,        \* md5_id: "call" before, "done" after the calls
    raw,        \* parse_price_currency: the argument
    parsed,     \* parse_price_currency: the returned (price, currency)
    ppc,        \* parse_price_currency: "call" / "done"
    ntext,      \* normalize_text: the argument
    nout,       \* normalize_text: the returned value
    npc,        \* normalize_text: "call" / "done"
    cfiles,     \* convert_wdc: the JSON files found under the source
    cidx,       \* convert_wdc: number of files processed so far
    cout,       \* convert_wdc: per processed file, what was done with it
    cpc,        \* convert_wdc: "run" / "done" / "crashed"
    fs,         \* main: the source directories on disk
    db,         \* main: the tables of the DuckDB file
    pc,         \* main: "idle", the adapter about to run, "done", "crashed"
    load,       \* main: args.load of the running session
    ran,        \* main: the adapters completed in the running session
    history,    \* main: every adapter invocation completed so far, in order
    sessions    \* main: number of sessions started

hashVars == <<hparts, hdigest, hpc>>
priceVars == <<raw, parsed, ppc>>
normVars == <<ntext, nout, npc>>
convVars == <<cfiles, cidx, cout, cpc>>
mainVars == <<fs, db, pc, load, ran, history, sessions>>
vars == <<hparts, hdigest, hpc, raw, parsed, ppc, ntext, nout, npc, cfiles, cidx, cout, cpc,
          fs, db, pc, load, ran, history, sessions>>

(***************************************************************************)
(* Python values                                                           *)
(***************************************************************************)
None == "<None>"          \* Python None
NaN == "<NaN>"            \* pandas' missing cell (float nan)

\* str(x)
Str(x) == IF x = None THEN "None" ELSE IF x = NaN THEN "nan" ELSE x

CharAt(s, i) == SubSeq(s, i, i)

SeqsUpTo(S, n) == UNION {[1..k -> S] : k \in 0..n}

(***************************************************************************)
(* etl/utils.py: md5_id                                                    *)
(***************************************************************************)
Separator == "|"

\* The loop body of md5_id dropping h.update(b"|").
RECURSIVE md5_id_nosep(_)
md5_id_nosep(parts) ==
    IF parts = <<>> THEN ""
    ELSE LET p == IF Head(parts) = None THEN "" ELSE Head(parts)
         IN  Str(p) \o md5_id_nosep(Tail(parts))

\* The bytes md5_id feeds the digest: for each part, str(p) (None read as "")
\* and then the separator.
RECURSIVE md5_id(_)
md5_id(parts) ==
    IF parts = <<>> THEN ""
    ELSE LET p == IF Head(parts) = None THEN "" ELSE Head(parts)
         IN  Str(p) \o Separator \o md5_id(Tail(parts))

MaxParts == 2

PartSet == {None, "", "a", "1", "a1", "ab", "a|"}

HashExamples == {<<"ds", "a", "1">>, <<"ds", "a1">>, <<"ds", "ab", "">>}

HashInputs == SeqsUpTo(PartSet, MaxParts) \cup HashExamples

HashIdle == hparts = <<>> /\ hdigest = <<>> /\ hpc = "idle"

InitHash ==
    /\ hparts \in HashInputs \X HashInputs
    /\ hdigest = <<>>
    /\ hpc = "call"

\* Two calls of md5_id.
Md5Calls ==
    /\ hpc = "call"
    /\ hdigest' = <<md5_id(hparts[1]), md5_id(hparts[2])>>
    /\ hpc' = "done"
    /\ UNCHANGED hparts

(***************************************************************************)
(* etl/utils.py: parse_price_currency                                      *)
(***************************************************************************)
Digits == {"0", "1", "2", "3", "4", "5", "6", "7", "8", "9"}
Symbols == {"$", "€", "£", "¥"}

\* _cur_map.get(symbol or "", None)
_cur_map(symbol) ==
    CASE symbol = "$" -> "USD"
      [] symbol = "€" -> "EUR"
      [] symbol = "£" -> "GBP"
      [] symbol = "¥" -> "JPY"
      [] OTHER -> None

IsDigitAt(s, i) == i >= 1 /\ i <= Len(s) /\ CharAt(s, i) \in Digits

\* \s* from position i: the first position that holds no whitespace.
RECURSIVE SkipWs(_, _)
SkipWs(s, i) == IF i <= Len(s) /\ CharAt(s, i) = " " THEN SkipWs(s, i + 1) ELSE i

\* [0-9]+ from position i (a digit): the last position of the run.
RECURSIVE DigitsEnd(_, _)
DigitsEnd(s, i) == IF IsDigitAt(s, i + 1) THEN DigitsEnd(s, i + 1) ELSE i

\* Whether _price_re matches with its first character at position i.
PriceMatchAt(s, i) ==
    \/ CharAt(s, i) \in Symbols /\ IsDigitAt(s, SkipWs(s, i + 1))
    \/ IsDigitAt(s, SkipWs(s, i))

\* _price_re.search: the leftmost position a match starts at, 0 for no match.
PriceSearch(s) ==
    IF \E i \in 1..Len(s) : PriceMatchAt(s, i)
    THEN CHOOSE i \in 1..Len(s) :
            PriceMatchAt(s, i) /\ \A j \in 1..(i - 1) : ~PriceMatchAt(s, j)
    ELSE 0

\* m.groups() of the match that starts at i: (symbol, num).
PriceGroups(s, i) ==
    LET hasSym == CharAt(s, i) \in Symbols
        b == SkipWs(s, IF hasSym THEN i + 1 ELSE i)
        e == DigitsEnd(s, b)
        frac == IF e + 1 <= Len(s) /\ CharAt(s, e + 1) \in {".", ","}
                   /\ IsDigitAt(s, e + 2)
                THEN IF IsDigitAt(s, e + 3) THEN 3 ELSE 2
                ELSE 0
    IN  <<IF hasSym THEN CharAt(s, i) ELSE None, SubSeq(s, b, e + frac)>>

\* num.replace(",", "")
RECURSIVE DropCommas(_)
DropCommas(s) ==
    IF s = "" THEN ""
    ELSE (IF Head(s) = "," THEN "" ELSE Head(s)) \o DropCommas(Tail(s))

RECURSIVE StripLeadingZeros(_)
StripLeadingZeros(s) ==
    IF Len(s) > 1 /\ Head(s) = "0" THEN StripLeadingZeros(Tail(s)) ELSE s

RECURSIVE StripTrailingZeros(_)
StripTrailingZeros(s) ==
    IF Len(s) > 1 /\ CharAt(s, Len(s)) = "0"
    THEN StripTrailingZeros(SubSeq(s, 1, Len(s) - 1)) ELSE s

DotPos(s) == IF \E i \in 1..Len(s) : CharAt(s, i) = "."
             THEN CHOOSE i \in 1..Len(s) : CharAt(s, i) = "." ELSE 0

\* float(num) of a literal digits[.digits], as the float's decimal text.
FloatOfLiteral(num) ==
    LET d == DotPos(num)
        ip == IF d = 0 THEN num ELSE SubSeq(num, 1, d - 1)
        fp == IF d = 0 THEN "0" ELSE SubSeq(num, d + 1, Len(num))
    IN  StripLeadingZeros(ip) \o "." \o StripTrailingZeros(fp)

\* float(raw) of a value without any digit: only the special words convert,
\* everything else raises (None stands for the exception).
FloatOfWord(x) ==
    CASE x = NaN \/ x = "nan" -> "nan"
      [] x = "inf" -> "inf"
      [] OTHER -> None

parse_price_currency(x) ==
    IF x = None THEN <<None, None>>
    ELSE LET s == Str(x)
             i == PriceSearch(s)
         IN  IF i = 0 THEN <<FloatOfWord(x), None>>
             ELSE LET g == PriceGroups(s, i)
                  IN  <<FloatOfLiteral(DropCommas(g[2])), _cur_map(g[1])>>

\* The inputs: an optional symbol, an optional blank, an integer part and an
\* optional fraction, and a few values outside that shape.
PriceSyms == {"", "$", "€", "£", "¥", "#"}
PriceInts == {"0", "5", "19", "007", "1234", "1,234", "12,345", "1,234,567"}
PriceFracs == {"", ".5", ".50", ".99", ".999", ",5"}
PriceOdd == {None, NaN, "", "n/a", "nan", "inf", "free", "USD 5", "$ $5",
             "-5", "1.2.3", "from $3.50 to $4"}

PriceShaped == {[sym |-> y, gap |-> g, ip |-> n, frac |-> f] :
                   y \in PriceSyms, g \in {"", " "}, n \in PriceInts, f \in PriceFracs}

PriceText(c) == c.sym \o c.gap \o c.ip \o c.frac

PriceInputs == {PriceText(c) : c \in PriceShaped} \cup PriceOdd

PriceIdle == raw = None /\ parsed = <<>> /\ ppc = "idle"

InitPrice ==
    /\ raw \in PriceInputs
    /\ parsed = <<>>
    /\ ppc = "call"

\* One call of parse_price_currency.
ParseCall ==
    /\ ppc = "call"
    /\ parsed' = parse_price_currency(raw)
    /\ ppc' = "done"
    /\ UNCHANGED raw

(***************************************************************************)
(* wdc_generator.py                                                        *)
(***************************************************************************)
UpperChars == "ABCDEFGHIJKLMNOPQRSTUVWXYZ"
LowerChars == "abcdefghijklmnopqrstuvwxyz"

LowerOf == [c \in {CharAt(UpperChars, i) : i \in 1..26} |->
               CharAt(LowerChars, CHOOSE i \in 1..26 : CharAt(UpperChars, i) = c)]

LowerChar(c) == IF c \in DOMAIN LowerOf THEN LowerOf[c] ELSE c

\* str.lower()
RECURSIVE Lower(_)
Lower(s) == IF s = "" THEN "" ELSE LowerChar(Head(s)) \o Lower(Tail(s))

\* str.startswith / str.endswith
StartsWith(s, t) == Len(s) >= Len(t) /\ SubSeq(s, 1, Len(t)) = t
EndsWith(s, t) == Len(s) >= Len(t) /\ SubSeq(s, Len(s) - Len(t) + 1, Len(s)) = t

\* str.split("_")
RECURSIVE SplitUnderscore(_)
SplitUnderscore(s) ==
    IF \E i \in 1..Len(s) : CharAt(s, i) = "_"
    THEN LET i == CHOOSE k \in 1..Len(s) :
                     CharAt(s, k) = "_" /\ \A j \in 1..(k - 1) : CharAt(s, j) # "_"
         IN  <<SubSeq(s, 1, i - 1)>> \o SplitUnderscore(SubSeq(s, i + 1, Len(s)))
    ELSE <<s>>

\* re.sub(r"\.(json|json\.gz)$", "", base)
StripJsonSuffix(s) ==
    IF EndsWith(s, ".json.gz") THEN SubSeq(s, 1, Len(s) - 8)
    ELSE IF EndsWith(s, ".json") THEN SubSeq(s, 1, Len(s) - 5)
    ELSE s

GeneratorSplits == {"train", "valid", "validation", "test", "dev"}

\* The first token of toks (lower-cased) that is a split name, None if none is.
RECURSIVE FirstSplitToken(_)
FirstSplitToken(toks) ==
    IF toks = <<>> THEN None
    ELSE IF Lower(Head(toks)) \in GeneratorSplits THEN Lower(Head(toks))
    ELSE FirstSplitToken(Tail(toks))

\* (variant, split) of a file name.
_parse_variant_and_split(filename) ==
    LET parts == SplitUnderscore(StripJsonSuffix(filename))
    IN  <<Head(parts), FirstSplitToken(Tail(parts))>>

\* _process_pair_file: gzip.open fails on a file that is not gzip-compressed,
\* and obj["id_left"] raises KeyError on a record without the pair fields.
_process_pair_file(f) ==
    IF EndsWith(f.name, ".json.gz") /\ f.kind = "pair"
    THEN [conv |-> "pair", ok |-> TRUE, wrote |-> {"offers.csv", "pairs.csv"}]
    ELSE [conv |-> "pair", ok |-> FALSE, wrote |-> {}]

\* _process_multi_file: pandas reads plain and compressed files alike;
\* offers_df["id"] raises KeyError on pair records, which have no id column.
_process_multi_file(f) ==
    IF f.kind = "multi"
    THEN [conv |-> "multi", ok |-> TRUE,
          wrote |-> {"offers.csv", "offer_to_entity.csv"}]
    ELSE [conv |-> "multi", ok |-> FALSE, wrote |-> {}]

\* The body of the loop of convert_wdc for one file.
ConvertOne(f) ==
    LET variant == _parse_variant_and_split(f.name)[1]
    IN  IF StartsWith(Lower(variant), "wdcproducts") THEN _process_pair_file(f)
        ELSE IF StartsWith(Lower(variant), "wdcproductsmulti")
        THEN _process_multi_file(f)
        \* Unknown naming: the first record decides.  A file that is not
        \* gzip-compressed falls to pd.read_json(json_file, nrows=1), which
        \* raises ValueError (nrows needs lines=True).
        ELSE IF ~EndsWith(f.name, ".json.gz")
        THEN [conv |-> "none", ok |-> FALSE, wrote |-> {}]
        ELSE IF f.kind = "pair" THEN _process_pair_file(f)
        ELSE _process_multi_file(f)

MaxFiles == 2

FileNames == {"wdcproducts80cc20rnd000un_train_large.json.gz",
              "wdcproductsmulti50cc50rnd050un_valid_medium.json.gz",
              "WDCproducts20cc80rnd050un_test.json",
              "offers_dev_small.json.gz",
              "products.json"}

JsonFiles == {[name |-> n, kind |-> k] : n \in FileNames, k \in {"pair", "multi"}}

ConvIdle == cfiles = <<>> /\ cidx = 0 /\ cout = <<>> /\ cpc = "idle"

InitConvert ==
    /\ cfiles \in SeqsUpTo(JsonFiles, MaxFiles)
    /\ cidx = 0
    /\ cout = <<>>
    /\ cpc = "run"

\* convert_wdc: if not files: raise RuntimeError
ConvertNoFiles ==
    /\ cpc = "run"
    /\ cfiles = <<>>
    /\ cpc' = "crashed"
    /\ UNCHANGED <<cfiles, cidx, cout>>

\* convert_wdc: one iteration of the loop over the files; an exception of the
\* conversion ends convert_wdc.
ConvertFile ==
    /\ cpc = "run"
    /\ cidx < Len(cfiles)
    /\ LET f == cfiles[cidx + 1]
           r == ConvertOne(f)
       IN  /\ cout' = Append(cout, [file |-> f,
                                    variant_dir |-> _parse_variant_and_split(f.name)[1],
                                    conv |-> r.conv, ok |-> r.ok, wrote |-> r.wrote])
           /\ cidx' = cidx + 1
           /\ cpc' = IF ~r.ok THEN "crashed"
                     ELSE IF cidx + 1 = Len(cfiles) THEN "done" ELSE "run"
    /\ UNCHANGED cfiles

(***************************************************************************)
(* etl/utils.py: normalize_text                                            *)
(***************************************************************************)
WsChars == {" ", "\t", "\n"}

\* unicodedata.normalize("NFKC", c) of one character, for the compatibility
\* characters of the model's alphabet; every other character is unchanged.
NFKCChar(c) ==
    CASE c = "²" -> "2"
      [] c = "ª" -> "a"
      [] OTHER -> c

RECURSIVE NFKC(_)
NFKC(s) == IF s = "" THEN "" ELSE NFKCChar(Head(s)) \o NFKC(Tail(s))

\* The end of the match of <[^>]+> that starts at the head of s, 0 for none.
TagEnd(s) ==
    IF Len(s) >= 3 /\ Head(s) = "<" /\ \E j \in 2..Len(s) : CharAt(s, j) = ">"
    THEN LET j == CHOOSE k \in 2..Len(s) :
                     CharAt(s, k) = ">" /\ \A m \in 2..(k - 1) : CharAt(s, m) # ">"
         IN  IF j >= 3 THEN j ELSE 0
    ELSE 0

\* _tag_re.sub(" ", s)
RECURSIVE StripTags(_)
StripTags(s) ==
    IF s = "" THEN ""
    ELSE IF TagEnd(s) > 0 THEN " " \o StripTags(SubSeq(s, TagEnd(s) + 1, Len(s)))
    ELSE Head(s) \o StripTags(Tail(s))

\* _ws_re.sub(" ", s)
RECURSIVE CollapseWs(_)
CollapseWs(s) ==
    IF s = "" THEN ""
    ELSE IF Head(s) \in WsChars
    THEN IF Len(s) >= 2 /\ CharAt(s, 2) \in WsChars THEN CollapseWs(Tail(s))
         ELSE " " \o CollapseWs(Tail(s))
    ELSE Head(s) \o CollapseWs(Tail(s))

\* str.strip()
RECURSIVE Strip(_)
Strip(s) ==
    IF s = "" THEN ""
    ELSE IF Head(s) \in WsChars THEN Strip(Tail(s))
    ELSE IF CharAt(s, Len(s)) \in WsChars THEN Strip(SubSeq(s, 1, Len(s) - 1))
    ELSE s

normalize_text(x) ==
    IF x = None THEN None ELSE Strip(CollapseWs(StripTags(NFKC(Str(x)))))

\* The characters the texts of the model are built from: letters of both
\* cases, a compatibility character, the three kinds of whitespace and the
\* two delimiters of a tag.
TextChars == {"a", "B", "²", " ", "\t", "\n", "<", ">"}

MaxText == 4

RECURSIVE Concat(_)
Concat(q) == IF q = <<>> THEN "" ELSE Head(q) \o Concat(Tail(q))

TextInputs ==
    {None, NaN, "<b>Hello</b>   world", "Hel<b>lo</b>"}
        \cup {Concat(q) : q \in SeqsUpTo(TextChars, MaxText)}

NormIdle == ntext = None /\ nout = None /\ npc = "idle"

InitNorm ==
    /\ ntext \in TextInputs
    /\ nout = None
    /\ npc = "call"

\* One call of normalize_text.
NormCall ==
    /\ npc = "call"
    /\ nout' = normalize_text(ntext)
    /\ npc' = "done"
    /\ UNCHANGED ntext

(***************************************************************************)
(* Source tables and the canonical sink                                    *)
(***************************************************************************)
\* A source file read by pandas: whether it exists, its column names in file
\* order and its rows, each a function from the column names to cell values.
NoFile == [exists |-> FALSE, cols |-> <<>>, rows |-> <<>>]

File(c, r) == [exists |-> TRUE, cols |-> c, rows |-> r]

Range(q) == {q[i] : i \in 1..Len(q)}

\* Every table of the given columns with at most n rows, the cells of column
\* c drawn from vals[c].
RowsOver(cols, vals) == [Range(cols) -> UNION {vals[c] : c \in Range(cols)}]

TablesOver(cols, vals, n) ==
    {File(cols, r) : r \in SeqsUpTo({w \in RowsOver(cols, vals) :
                                        \A c \in Range(cols) : w[c] \in vals[c]}, n)}

\* r.get(col)
Get(r, col) == IF col \in DOMAIN r THEN r[col] ELSE None

\* next((c for c in columns if pred(c)), None)
FirstCol(cols, Pred(_)) ==
    IF \E i \in 1..Len(cols) : Pred(cols[i])
    THEN cols[CHOOSE i \in 1..Len(cols) :
                 Pred(cols[i]) /\ \A j \in 1..(i - 1) : ~Pred(cols[j])]
    ELSE None

\* "t" in s
Contains(s, t) == \E i \in 1..(Len(s) - Len(t) + 1) : SubSeq(s, i, i + Len(t) - 1) = t

\* [f(r) for r in rows]
MapRows(rows, F(_)) == [i \in 1..Len(rows) |-> F(rows[i])]

Tables == {"items", "queries", "query_item_labels", "item_item_pairs",
           "entities", "item_entity"}

EmptyDb == [t \in Tables |-> <<>>]

\* pd.DataFrame(rows), and None in the place of a frame.
DataFrame(rows) == [isNone |-> FALSE, rows |-> rows]
NoneFrame == [isNone |-> TRUE, rows |-> <<>>]

\* An append_df that skips the rows the table already holds.
append_df_dedup(d, table, df) ==
    IF df.isNone \/ Len(df.rows) = 0 THEN d
    ELSE [d EXCEPT ![table] =
            @ \o SelectSeq(df.rows, LAMBDA r : r \notin Range(d[table]))]

\* An append_df that replaces the rows of the table by the batch.
append_df_replace(d, table, df) ==
    IF df.isNone \/ Len(df.rows) = 0 THEN d
    ELSE [d EXCEPT ![table] = df.rows]

\* append_df: INSERT INTO table SELECT * FROM tmp_df, nothing for an empty or
\* absent frame.
append_df(d, table, df) ==
    IF df.isNone \/ Len(df.rows) = 0 THEN d
    ELSE [d EXCEPT ![table] = @ \o df.rows]

(***************************************************************************)
(* main.py: the session                                                    *)
(***************************************************************************)
\* The order of the if-statements of main.
Order == <<"abt_buy", "cikm16", "esci", "wdc">>

\* The first adapter selected by args.load among Order[k+1..], "done" if none.
NextSelected(L, k) ==
    IF \E i \in (k + 1)..Len(Order) : Order[i] \in L
    THEN Order[CHOOSE i \in (k + 1)..Len(Order) :
                  Order[i] \in L /\ \A j \in (k + 1)..(i - 1) : Order[j] \notin L]
    ELSE "done"

IndexOf(a) == CHOOSE i \in 1..Len(Order) : Order[i] = a

MaxSessions == 2

\* One run of main.py --load L, for L among the given choices: the schema is
\* ensured and control reaches the first selected adapter.
StartSession(choices) ==
    /\ pc \in {"idle", "done", "crashed"}
    /\ sessions < MaxSessions
    /\ \E L \in choices :
          /\ load' = L
          /\ pc' = NextSelected(L, 0)
    /\ ran' = {}
    /\ sessions' = sessions + 1
    /\ UNCHANGED <<fs, db, history>>

\* An adapter call of main returns: control moves to the next selected one.
Returned(a, d) ==
    /\ db' = d
    /\ ran' = ran \cup {a}
    /\ history' = Append(history, [adapter |-> a, ok |-> TRUE])
    /\ pc' = NextSelected(load, IndexOf(a))
    /\ UNCHANGED <<fs, load, sessions>>

\* An adapter call of main raises: nothing catches it, the process ends.
Raised(a, d) ==
    /\ db' = d
    /\ history' = Append(history, [adapter |-> a, ok |-> FALSE])
    /\ pc' = "crashed"
    /\ UNCHANGED <<fs, load, ran, sessions>>

MainIdle ==
    /\ fs = <<>> /\ db = EmptyDb /\ pc = "off" /\ load = {} /\ ran = {}
    /\ history = <<>> /\ sessions = 0

MainStart ==
    /\ db = EmptyDb /\ pc = "idle" /\ load = {} /\ ran = {}
    /\ history = <<>> /\ sessions = 0

(***************************************************************************)
(* etl/abt_buy.py                                                          *)
(***************************************************************************)
AbtItemA(r) ==
    LET pc_ == parse_price_currency(Get(r, "price"))
    IN  [item_id |-> md5_id(<<"abt_buy", "tablea", Get(r, "id")>>),
         dataset |-> "abt_buy",
         dataset_item_key |-> "tablea:" \o Str(Get(r, "id")),
         merchant |-> "tablea",
         locale |-> None,
         brand |-> None,
         title |-> normalize_text(Get(r, "name")),
         description |-> normalize_text(Get(r, "description")),
         price |-> pc_[1],
         currency |-> pc_[2],
         category |-> None,
         split |-> None,
         variant |-> None,
         version |-> None]

AbtItemB(r) ==
    LET pc_ == parse_price_currency(Get(r, "price"))
    IN  [item_id |-> md5_id(<<"abt_buy", "tableb", Get(r, "id")>>),
         dataset |-> "abt_buy",
         dataset_item_key |-> "tableb:" \o Str(Get(r, "id")),
         merchant |-> "tableb",
         locale |-> None,
         brand |-> Get(r, "manufacturer"),
         title |-> normalize_text(Get(r, "name")),
         description |-> normalize_text(Get(r, "description")),
         price |-> pc_[1],
         currency |-> pc_[2],
         category |-> None,
         split |-> None,
         variant |-> None,
         version |-> None]

\* A pair row that hashes the left id under the second table's tag.
AbtPair_wrongside(r) ==
    [left_item_id |-> md5_id(<<"abt_buy", "tableb", Get(r, "tablea_id")>>),
     right_item_id |-> md5_id(<<"abt_buy", "tableb", Get(r, "tableb_id")>>),
     label |-> "match",
     pair_source |-> "gold",
     split |-> None,
     variant |-> None]

AbtPair(r) ==
    [left_item_id |-> md5_id(<<"abt_buy", "tablea", Get(r, "tablea_id")>>),
     right_item_id |-> md5_id(<<"abt_buy", "tableb", Get(r, "tableb_id")>>),
     label |-> "match",
     pair_source |-> "gold",
     split |-> None,
     variant |-> None]

\* load_abt_buy on an existing source: the database after it.
AbtLoaded(d, src) ==
    LET abt_df == MapRows(src.TableA.rows, AbtItemA)
        buy_df == MapRows(src.TableB.rows, AbtItemB)
        items_df == DataFrame(abt_df \o buy_df)
        pair_df == DataFrame(MapRows(src.matches.rows, AbtPair))
    IN  append_df(append_df(d, "items", items_df), "item_item_pairs", pair_df)

\* main: load_abt_buy(con, args.abt_dir).  pd.read_csv raises on a missing
\* file before anything is appended.
load_abt_buy ==
    /\ pc = "abt_buy"
    /\ IF fs.abt.TableA.exists /\ fs.abt.TableB.exists /\ fs.abt.matches.exists
       THEN Returned("abt_buy", AbtLoaded(db, fs.abt))
       ELSE Raised("abt_buy", db)

(***************************************************************************)
(* etl/cikm16.py                                                           *)
(***************************************************************************)
NativeIdNames == {"productid", "product_id", "itemid", "item_id", "id"}

IsIdCol(c) == Lower(c) \in NativeIdNames
IsTitleCol(c) == Contains(Lower(c), "title") \/ Contains(Lower(c), "name")
IsDescCol(c) == Contains(Lower(c), "desc")
IsBrandCol(c) == Contains(Lower(c), "brand")
IsPriceCol(c) == Contains(Lower(c), "price")
IsCategoryCol(c) == Contains(Lower(c), "category")
IsQueryIdCol(c) == Contains(Lower(c), "queryid")
IsQueryTextCol(c) == Lower(c) \in {"query", "query_text", "searchtokens", "search_tokens"}
IsQuerylessCol(c) == Contains(Lower(c), "queryless")
IsLocaleCol(c) == Contains(Lower(c), "locale")
IsSessionCol(c) == Contains(Lower(c), "session")
IsEventDateCol(c) == Contains(Lower(c), "eventdate") \/ Contains(Lower(c), "event_date")
IsItemCol(c) == Lower(c) \in {"itemid", "productid", "item_id", "product_id"}

\* Python truth of a cell as pandas parsed it: None, "", the bool False and
\* the number 0 are false, nan is true.
Truthy(v) == v \notin {None, "", "False", "0"}

\* Python truth of a str or None.
StrTruthy(v) == v \notin {None, ""}

\* dict(zip(keys, values)).get(k): the value of the last row whose key is k.
DictGet(rows, kcol, vcol, k) ==
    IF \E i \in 1..Len(rows) : Str(rows[i][kcol]) = k
    THEN LET i == CHOOSE n \in 1..Len(rows) :
                     /\ Str(rows[n][kcol]) = k
                     /\ \A m \in (n + 1)..Len(rows) : Str(rows[m][kcol]) # k
         IN  rows[i][vcol]
    ELSE None

\* cat_map.get(pid) of _load_products.
CikmCategory(cats, pid) ==
    LET pid_col == FirstCol(cats.cols, IsIdCol)
        cat_col == FirstCol(cats.cols, IsCategoryCol)
    IN  IF cats.exists /\ pid_col # None /\ cat_col # None
        THEN LET v == DictGet(cats.rows, pid_col, cat_col, pid)
             IN  IF v = None THEN None ELSE Str(v)
        ELSE None

\* _load_products: the items frame.
CikmItems(src) ==
    LET cols == src.products.cols
        id_col == FirstCol(cols, IsIdCol)
        title_col == FirstCol(cols, IsTitleCol)
        desc_col == FirstCol(cols, IsDescCol)
        brand_col == FirstCol(cols, IsBrandCol)
        price_col == FirstCol(cols, IsPriceCol)
        Item(r) ==
            LET pid == Str(Get(r, id_col))
                pc_ == IF price_col # None
                       THEN parse_price_currency(Get(r, price_col))
                       ELSE <<None, None>>
            IN  [item_id |-> md5_id(<<"cikm16", pid>>),
                 dataset |-> "cikm16",
                 dataset_item_key |-> pid,
                 merchant |-> None,
                 locale |-> None,
                 brand |-> IF brand_col # None THEN Get(r, brand_col) ELSE None,
                 title |-> IF title_col # None
                           THEN normalize_text(Get(r, title_col)) ELSE None,
                 description |-> IF desc_col # None
                                 THEN normalize_text(Get(r, desc_col)) ELSE None,
                 price |-> pc_[1],
                 currency |-> pc_[2],
                 category |-> CikmCategory(src.categories, pid),
                 split |-> "train",
                 variant |-> None,
                 version |-> None]
    IN  MapRows(src.products.rows, Item)

\* native_qid of _load_queries:
\* str(r.get(qid)) if qid else normalize_text(r.get(qtxt)) or None
CikmQueryNative(r, cols) ==
    LET qid == FirstCol(cols, IsQueryIdCol)
        qtxt == FirstCol(cols, IsQueryTextCol)
        t == normalize_text(Get(r, qtxt))
    IN  IF qid # None THEN Str(Get(r, qid))
        ELSE IF t = None \/ t = "" THEN None ELSE t

\* _load_queries: the queries frame.
CikmQueries(q) ==
    LET qtxt == FirstCol(q.cols, IsQueryTextCol)
        qless == FirstCol(q.cols, IsQuerylessCol)
        locale == FirstCol(q.cols, IsLocaleCol)
        sess == FirstCol(q.cols, IsSessionCol)
        evdate == FirstCol(q.cols, IsEventDateCol)
        Query(r) ==
            [query_id |-> md5_id(<<"cikm16", CikmQueryNative(r, q.cols)>>),
             dataset |-> "cikm16",
             query_text |-> IF qtxt # None THEN normalize_text(Get(r, qtxt)) ELSE None,
             locale |-> IF locale # None THEN Get(r, locale) ELSE None,
             query_type |-> IF qless # None /\ Truthy(Get(r, qless))
                            THEN "queryless" ELSE "full",
             source |-> "train-queries",
             session_id |-> IF sess # None THEN Str(Get(r, sess)) ELSE None,
             event_date |-> IF evdate # None THEN Str(Get(r, evdate)) ELSE None]
    IN  MapRows(q.rows, Query)

\* native_qid of _load_interactions:
\* str(r.get(qid)) if qid else str(r.get(sess)) if sess else None
CikmLabelNative(r, cols) ==
    LET qid == FirstCol(cols, IsQueryIdCol)
        sess == FirstCol(cols, IsSessionCol)
    IN  IF qid # None THEN Str(Get(r, qid))
        ELSE IF sess # None THEN Str(Get(r, sess))
        ELSE None

\* The rows _load_interactions builds from one chunk.
CikmLabels(rows, cols, label_family) ==
    LET sess == FirstCol(cols, IsSessionCol)
        item == FirstCol(cols, IsItemCol)
        Label(r) ==
            LET native_qid == CikmLabelNative(r, cols)
                iid_native == IF item # None THEN Str(Get(r, item)) ELSE None
            IN  [query_id |-> IF StrTruthy(native_qid)
                              THEN md5_id(<<"cikm16", native_qid>>) ELSE None,
                 item_id |-> IF StrTruthy(iid_native)
                             THEN md5_id(<<"cikm16", iid_native>>) ELSE None,
                 label_family |-> label_family,
                 label |-> IF label_family \in {"click", "purchase", "view"}
                           THEN "1" ELSE None,
                 session_id |-> IF sess # None THEN Str(Get(r, sess)) ELSE None,
                 split |-> "train"]
    IN  MapRows(rows, Label)

\* pd.read_csv infers the dtype of every column from the cells of the chunk
\* it parses: int64 when every cell is an integer literal, float64 when the
\* cells are numeric literals or missing, object otherwise.
IsMissing(v) == v \in {"", NaN}

IsIntText(v) == Len(v) >= 1 /\ \A i \in 1..Len(v) : IsDigitAt(v, i)

IsFloatText(v) ==
    /\ DotPos(v) > 1 /\ DotPos(v) < Len(v)
    /\ \A i \in 1..Len(v) : i # DotPos(v) => IsDigitAt(v, i)

ColumnDtype(rows, c) ==
    IF \A i \in 1..Len(rows) : IsIntText(rows[i][c]) THEN "int64"
    ELSE IF \A i \in 1..Len(rows) :
               IsIntText(rows[i][c]) \/ IsFloatText(rows[i][c]) \/ IsMissing(rows[i][c])
         THEN "float64"
         ELSE "object"

\* for _, r in ch.iterrows(): every row is a Series of the common dtype of
\* the chunk's columns, float64 when all are numeric and one is float64.
RowDtype(rows, cols) ==
    IF \E c \in Range(cols) : ColumnDtype(rows, c) = "object" THEN "object"
    ELSE IF \E c \in Range(cols) : ColumnDtype(rows, c) = "float64" THEN "float64"
    ELSE "int64"

\* The cell r.get(c) of a row of the chunk, written as str() prints it.
ChunkCell(rows, cols, v, c) ==
    LET dt == IF RowDtype(rows, cols) = "float64" THEN "float64"
              ELSE ColumnDtype(rows, c)
    IN  CASE IsMissing(v) -> NaN
          [] dt = "int64" -> StripLeadingZeros(v)
          [] dt = "float64" -> FloatOfLiteral(v)
          [] OTHER -> v

\* One chunk of pd.read_csv(p, chunksize=...): the rows as iterrows yields them.
ReadChunk(rows, cols) ==
    [i \in 1..Len(rows) |->
        [c \in DOMAIN rows[i] |-> ChunkCell(rows, cols, rows[i][c], c)]]

\* Rows per chunk of pd.read_csv(p, chunksize=...) in the model.
ChunkSize == 2

Min(a, b) == IF a < b THEN a ELSE b

\* The loop of _load_interactions over chunks of the given size: each chunk
\* is parsed, mapped row by row and appended.
RECURSIVE ChunksLoop(_, _, _, _, _)
ChunksLoop(size, d, rows, cols, label_family) ==
    IF rows = <<>> THEN d
    ELSE LET n == Min(size, Len(rows))
         IN  ChunksLoop(size,
                 append_df(d, "query_item_labels",
                           DataFrame(CikmLabels(ReadChunk(SubSeq(rows, 1, n), cols),
                                                cols, label_family))),
                 SubSeq(rows, n + 1, Len(rows)), cols, label_family)

\* _load_interactions: the file is read chunk by chunk and each chunk's rows
\* are appended.
AppendChunks(d, rows, cols, label_family) ==
    ChunksLoop(ChunkSize, d, rows, cols, label_family)

_load_interactions(d, f, label_family) ==
    IF ~f.exists THEN d ELSE AppendChunks(d, f.rows, f.cols, label_family)

\* load_cikm16 once products.csv exists.
CikmLoaded(d, src) ==
    LET d1 == append_df(d, "items", DataFrame(CikmItems(src)))
        d2 == IF src.queries.exists
              THEN append_df(d1, "queries", DataFrame(CikmQueries(src.queries)))
              ELSE d1
        d3 == _load_interactions(d2, src.views, "view")
        d4 == _load_interactions(d3, src.clicks, "click")
    IN  _load_interactions(d4, src.purchases, "purchase")

\* main: load_cikm16(con, args.cikm_dir).  _load_products raises
\* FileNotFoundError when products.csv is missing.
load_cikm16 ==
    /\ pc = "cikm16"
    /\ IF fs.cikm.products.exists
       THEN Returned("cikm16", CikmLoaded(db, fs.cikm))
       ELSE Raised("cikm16", db)

(***************************************************************************)
(* etl/esci.py                                                             *)
(***************************************************************************)
EsciItem(r) ==
    LET pid == Str(r["product_id"])
        loc == r["product_locale"]
    IN  [item_id |-> md5_id(<<"esci", loc, pid>>),
         dataset |-> "esci",
         dataset_item_key |-> Str(loc) \o ":" \o pid,
         merchant |-> None,
         locale |-> loc,
         brand |-> Get(r, "product_brand"),
         title |-> normalize_text(Get(r, "product_title")),
         description |-> normalize_text(Get(r, "product_description")),
         price |-> None,
         currency |-> None,
         category |-> None,
         split |-> None,
         variant |-> None,
         version |-> None]

\* src_map.get(qid_native)
EsciSource(sources, qid_native) ==
    IF sources.exists /\ Len(sources.rows) > 0
    THEN DictGet(sources.rows, "query_id", "source", qid_native)
    ELSE None

EsciQuery(r, sources) ==
    LET qid_native == Str(r["query_id"])
    IN  [query_id |-> md5_id(<<"esci", qid_native>>),
         dataset |-> "esci",
         query_text |-> normalize_text(r["query"]),
         locale |-> r["product_locale"],
         query_type |-> "full",
         source |-> EsciSource(sources, qid_native),
         session_id |-> None,
         event_date |-> None]

\* DataFrame.drop_duplicates(subset=["query_id"]): the first row of each id.
DropDuplicateQueries(q) ==
    SelectSeq([i \in 1..Len(q) |-> [row |-> q[i], first |->
                  \A j \in 1..(i - 1) : q[j].query_id # q[i].query_id]],
              LAMBDA x : x.first)

EsciLabel(r) ==
    [query_id |-> md5_id(<<"esci", Str(r["query_id"])>>),
     item_id |-> md5_id(<<"esci", r["product_locale"], Str(r["product_id"])>>),
     label_family |-> "ESCI",
     label |-> r["esci_label"],
     session_id |-> None,
     split |-> Get(r, "split")]

\* A load_esci that appends its items only to a sink that holds no items yet.
EsciLoaded_onempty(d, src) ==
    LET items_df == IF d["items"] = <<>>
                    THEN DataFrame(MapRows(src.products.rows, EsciItem))
                    ELSE NoneFrame
        qrows == [i \in 1..Len(src.examples.rows) |->
                     EsciQuery(src.examples.rows[i], src.sources)]
        dedup == DropDuplicateQueries(qrows)
        q_df == DataFrame([i \in 1..Len(dedup) |-> dedup[i].row])
        l_df == DataFrame(MapRows(src.examples.rows, EsciLabel))
    IN  append_df(append_df(append_df(d, "items", items_df), "queries", q_df),
                  "query_item_labels", l_df)

EsciLoaded(d, src) ==
    LET items_df == DataFrame(MapRows(src.products.rows, EsciItem))
        qrows == [i \in 1..Len(src.examples.rows) |->
                     EsciQuery(src.examples.rows[i], src.sources)]
        dedup == DropDuplicateQueries(qrows)
        q_df == DataFrame([i \in 1..Len(dedup) |-> dedup[i].row])
        l_df == DataFrame(MapRows(src.examples.rows, EsciLabel))
    IN  append_df(append_df(append_df(d, "items", items_df), "queries", q_df),
                  "query_item_labels", l_df)

\* main: load_esci(con, args.esci_dir).  pd.read_parquet raises on a missing
\* file before anything is appended.
load_esci ==
    /\ pc = "esci"
    /\ IF fs.esci.products.exists /\ fs.esci.examples.exists
       THEN Returned("esci", EsciLoaded(db, fs.esci))
       ELSE Raised("esci", db)

(***************************************************************************)
(* etl/wdc_products.py                                                     *)
(***************************************************************************)
\* A directory is the sequence of its files, in listing order, each a File
\* with a name.
Named(n, f) == [name |-> n, exists |-> f.exists, cols |-> f.cols, rows |-> f.rows]

LowerCols(f) == {Lower(f.cols[i]) : i \in 1..Len(f.cols)}

\* The first file of the listing that satisfies Pred, NoFile if none does.
FirstFile(files, Pred(_)) ==
    IF \E i \in 1..Len(files) : Pred(files[i])
    THEN files[CHOOSE i \in 1..Len(files) :
                  Pred(files[i]) /\ \A j \in 1..(i - 1) : ~Pred(files[j])]
    ELSE NoFile

OfferCols == {"id", "title", "description", "price", "pricecurrency", "brand"}
PairCols == {"left_id", "right_id", "label"}

_detect_offers_file(files) ==
    LET Csv(f) == EndsWith(f.name, ".csv") /\ OfferCols \subseteq LowerCols(f)
        Tsv(f) == EndsWith(f.name, ".tsv") /\ OfferCols \subseteq LowerCols(f)
    IN  IF FirstFile(files, Csv).exists THEN FirstFile(files, Csv)
        ELSE FirstFile(files, Tsv)

_detect_pairs_file(files) ==
    LET HasCols(f) == PairCols \subseteq LowerCols(f)
        G1(f) == StartsWith(f.name, "pairs.") /\ HasCols(f)
        G2(f) == Contains(f.name, "pairs") /\ EndsWith(f.name, ".csv") /\ HasCols(f)
        G3(f) == Contains(f.name, "pairs") /\ EndsWith(f.name, ".tsv") /\ HasCols(f)
        G4(f) == EndsWith(f.name, ".csv") /\ HasCols(f)
    IN  IF FirstFile(files, G1).exists THEN FirstFile(files, G1)
        ELSE IF FirstFile(files, G2).exists THEN FirstFile(files, G2)
        ELSE IF FirstFile(files, G3).exists THEN FirstFile(files, G3)
        ELSE FirstFile(files, G4)

\* The name from position i on, without its four-character extension.
Stem(name, i) == IF i > Len(name) - 4 THEN "" ELSE SubSeq(name, i, Len(name) - 4)

\* fnmatch of "*a*b*.csv"
GlobTwo(name, a, b) ==
    /\ EndsWith(name, ".csv")
    /\ \E i \in 1..(Len(name) - 4 - Len(a) + 1) :
          /\ SubSeq(name, i, i + Len(a) - 1) = a
          /\ Contains(Stem(name, i + Len(a)), b)

_detect_multiclass_file(files) ==
    LET HasCols(f) == /\ LowerCols(f) \cap {"offer_id", "id", "item_id"} # {}
                      /\ \E c \in LowerCols(f) : Contains(c, "entity")
        G1(f) == /\ Contains(Stem(f.name, 1), "offer_to_entity")
                 /\ EndsWith(f.name, ".csv") /\ HasCols(f)
        G2(f) == GlobTwo(f.name, "offer", "entity") /\ HasCols(f)
        G3(f) == /\ Contains(Stem(f.name, 1), "multi")
                 /\ EndsWith(f.name, ".csv") /\ HasCols(f)
    IN  IF FirstFile(files, G1).exists THEN FirstFile(files, G1)
        ELSE IF FirstFile(files, G2).exists THEN FirstFile(files, G2)
        ELSE FirstFile(files, G3)

\* The rows of a file under its lower-cased column names.
LowerRow(r) == [c \in {Lower(k) : k \in DOMAIN r} |->
                   r[CHOOSE k \in DOMAIN r : Lower(k) = c]]

\* a or b
Or(a, b) == IF Truthy(a) THEN a ELSE b

\* md5_id("wdc", oid): the identifier of an offer, in items, pairs and links.
WdcItemId(oid) == md5_id(<<"wdc", oid>>)

WdcItem(r0, variant_name, split) ==
    LET r == LowerRow(r0)
        oid == Str(r["id"])
        pc_ == parse_price_currency(Get(r, "price"))
    IN  [item_id |-> WdcItemId(oid),
         dataset |-> "wdc",
         dataset_item_key |-> oid,
         merchant |-> None,
         locale |-> None,
         brand |-> Get(r, "brand"),
         title |-> normalize_text(Get(r, "title")),
         description |-> normalize_text(Get(r, "description")),
         price |-> pc_[1],
         currency |-> Or(Get(r, "pricecurrency"), pc_[2]),
         category |-> None,
         split |-> split,
         variant |-> variant_name,
         version |-> "2024"]

WdcPair(r0, variant_name, split) ==
    LET r == LowerRow(r0)
    IN  [left_item_id |-> WdcItemId(Str(r["left_id"])),
         right_item_id |-> WdcItemId(Str(r["right_id"])),
         label |-> IF r["label"] # NaN THEN Lower(Str(r["label"])) ELSE None,
         pair_source |-> "benchmark",
         split |-> split,
         variant |-> variant_name]

\* Series.unique().tolist(): the values in order of first appearance.
Unique(q) ==
    SelectSeq([i \in 1..Len(q) |-> [v |-> q[i], first |->
                  \A j \in 1..(i - 1) : q[j] # q[i]]],
              LAMBDA x : x.first)

\* The multi-class part of load_wdc_variant.
WdcMulti(d, mf, variant_name) ==
    LET cols == [i \in 1..Len(mf.cols) |-> Lower(mf.cols[i])]
        offer_col == FirstCol(cols, LAMBDA c : c \in {"offer_id", "id", "item_id"})
        ent_col == FirstCol(cols, LAMBDA c : Contains(c, "entity"))
        ents == Unique([i \in 1..Len(mf.rows) |-> Str(LowerRow(mf.rows[i])[ent_col])])
        ent_df == DataFrame([i \in 1..Len(ents) |->
                     [entity_id |-> "wdc:" \o ents[i].v, dataset |-> "wdc",
                      notes |-> variant_name]])
        link_df == DataFrame([i \in 1..Len(mf.rows) |->
                      [item_id |-> WdcItemId(Str(LowerRow(mf.rows[i])[offer_col])),
                       entity_id |-> "wdc:" \o Str(LowerRow(mf.rows[i])[ent_col])]])
    IN  IF offer_col # None /\ ent_col # None
        THEN append_df(append_df(d, "entities", ent_df), "item_entity", link_df)
        ELSE d

\* load_wdc_variant on a directory that holds an offers file.
load_wdc_variant(d, files, variant_name, split) ==
    LET offers == _detect_offers_file(files)
        pf == _detect_pairs_file(files)
        mf == _detect_multiclass_file(files)
        d1 == append_df(d, "items",
                        DataFrame([i \in 1..Len(offers.rows) |->
                            WdcItem(offers.rows[i], variant_name, split)]))
        d2 == IF pf.exists
              THEN append_df(d1, "item_item_pairs",
                             DataFrame([i \in 1..Len(pf.rows) |->
                                 WdcPair(pf.rows[i], variant_name, split)]))
              ELSE d1
    IN  IF mf.exists THEN WdcMulti(d2, mf, variant_name) ELSE d2

WdcSplits == <<"train", "val", "valid", "validation", "test", "dev">>

\* A split inference that takes only a whole underscore-delimited token of
\* the name.
WdcSplit_token(name) ==
    FirstCol(WdcSplits, LAMBDA tok : tok \in Range(SplitUnderscore(Lower(name))))

\* The split load_wdc infers from a directory name.
WdcSplit(name) == FirstCol(WdcSplits, LAMBDA tok : Contains(Lower(name), tok))

\* The loop of load_wdc over the variant directories: the database after it
\* and whether it ran to its end (load_wdc_variant raises FileNotFoundError
\* on a directory without an offers file).
RECURSIVE WdcLoop(_, _)
WdcLoop(d, subs) ==
    IF subs = <<>> THEN [db |-> d, ok |-> TRUE]
    ELSE IF ~_detect_offers_file(Head(subs).files).exists THEN [db |-> d, ok |-> FALSE]
    ELSE WdcLoop(load_wdc_variant(d, Head(subs).files, Head(subs).name,
                                  WdcSplit(Head(subs).name)),
                 Tail(subs))

\* load_wdc: the base directory itself is the variant when it has no
\* subdirectory.
WdcLoaded(d, src) ==
    IF src.subs = <<>>
    THEN IF _detect_offers_file(src.files).exists
         THEN [db |-> load_wdc_variant(d, src.files, src.name, None), ok |-> TRUE]
         ELSE [db |-> d, ok |-> FALSE]
    ELSE WdcLoop(d, src.subs)

\* main: load_wdc(con, args.wdc_dir).  base.iterdir() raises on a missing
\* base directory.
load_wdc ==
    /\ pc = "wdc"
    /\ LET r == WdcLoaded(db, fs.wdc)
       IN  IF ~fs.wdc.exists THEN Raised("wdc", db)
           ELSE IF r.ok THEN Returned("wdc", r.db)
           ELSE Raised("wdc", r.db)

(***************************************************************************)
(* The source directories                                                  *)
(***************************************************************************)
MaxRows == 2

AbtSrc(A, B, M) == [TableA |-> A, TableB |-> B, matches |-> M]

AbtRowsA == {[id |-> i, name |-> "<b>TV</b>  42in", description |-> NaN] :
                i \in {"1", "2"}}
AbtRowsB == {[id |-> i, name |-> "tv 42", description |-> "a  tv",
              manufacturer |-> "sony", price |-> "$19.99"] : i \in {"1", "2"}}
AbtRowsM == {[tablea_id |-> ab[1], tableb_id |-> ab[2]] :
                ab \in {<<"1", "1">>, <<"1", "2">>, <<"2", "1">>}}

AbtFilesA == {NoFile} \cup {File(<<"id", "name", "description">>, r) :
                               r \in SeqsUpTo(AbtRowsA, MaxRows)}
AbtFilesB == {NoFile} \cup
             {File(<<"id", "name", "description", "manufacturer", "price">>, r) :
                 r \in SeqsUpTo(AbtRowsB, MaxRows)}
AbtFilesM == {NoFile} \cup {File(<<"tablea_id", "tableb_id">>, r) :
                               r \in SeqsUpTo(AbtRowsM, MaxRows)}

AbtSources == {AbtSrc(A, B, M) : A \in AbtFilesA, B \in AbtFilesB, M \in AbtFilesM}

AbtDefault ==
    AbtSrc(File(<<"id", "name", "description">>,
                <<[id |-> "1", name |-> "tv", description |-> NaN]>>),
           File(<<"id", "name", "description", "manufacturer", "price">>,
                <<[id |-> "1", name |-> "tv", description |-> NaN,
                   manufacturer |-> "sony", price |-> "$19.99"]>>),
           File(<<"tablea_id", "tableb_id">>, <<[tablea_id |-> "1", tableb_id |-> "1"]>>))

AbtMissing == AbtSrc(NoFile, NoFile, NoFile)

CikmSrc(p, c, q, v, k, u) ==
    [products |-> p, categories |-> c, queries |-> q, views |-> v, clicks |-> k,
     purchases |-> u]

CikmDefault ==
    CikmSrc(File(<<"itemId", "pricelog2", "product_name_tokens">>,
                 <<[itemId |-> "1", pricelog2 |-> "9", product_name_tokens |-> "4,5"]>>),
            File(<<"itemId", "categoryId">>, <<[itemId |-> "1", categoryId |-> "3"]>>),
            File(<<"queryId", "sessionId", "searchstring_tokens">>,
                 <<[queryId |-> "7", sessionId |-> "s1",
                    searchstring_tokens |-> "4,5"]>>),
            File(<<"sessionId", "itemId">>, <<[sessionId |-> "s1", itemId |-> "1"]>>),
            File(<<"queryId", "itemId">>, <<[queryId |-> "7", itemId |-> "1"]>>),
            NoFile)

CikmMissing == CikmSrc(NoFile, NoFile, NoFile, NoFile, NoFile, NoFile)

EsciSrc(p, e, s) == [products |-> p, examples |-> e, sources |-> s]

EsciProductCols == <<"product_id", "product_locale", "product_title">>
EsciExampleCols == <<"query_id", "query", "product_id", "product_locale",
                     "esci_label", "split">>

EsciDefault ==
    EsciSrc(File(EsciProductCols,
                 <<[product_id |-> "1", product_locale |-> "us", product_title |-> "tv"],
                   [product_id |-> "1", product_locale |-> "es", product_title |-> "tele"]>>),
            File(EsciExampleCols,
                 <<[query_id |-> "7", query |-> "tv", product_id |-> "1",
                    product_locale |-> "us", esci_label |-> "E", split |-> "train"],
                   [query_id |-> "7", query |-> "tv", product_id |-> "1",
                    product_locale |-> "es", esci_label |-> "S", split |-> "train"]>>),
            File(<<"query_id", "source">>, <<[query_id |-> "7", source |-> "other"]>>))

EsciMissing == EsciSrc(NoFile, NoFile, NoFile)

WdcSrc(n, f, s) == [exists |-> TRUE, name |-> n, files |-> f, subs |-> s]

WdcOfferCols == <<"id", "title", "description", "price", "pricecurrency", "brand">>

WdcOffer(i, p, c) ==
    [id |-> i, title |-> "tv", description |-> NaN, price |-> p, pricecurrency |-> c,
     brand |-> "sony"]

WdcDefault ==
    WdcSrc("wdc", <<>>,
           <<[name |-> "wdcproducts80cc20rnd000un_train_large",
              files |-> <<Named("offers.csv",
                                File(WdcOfferCols, <<WdcOffer("1", "$5", "USD"),
                                                     WdcOffer("2", "6.50", NaN)>>)),
                          Named("pairs.csv",
                                File(<<"left_id", "right_id", "label">>,
                                     <<[left_id |-> "1", right_id |-> "2",
                                        label |-> "1"]>>))>>]>>)

WdcMissing == [exists |-> FALSE, name |-> "wdc", files |-> <<>>, subs |-> <<>>]

FsDefault == [abt |-> AbtDefault, cikm |-> CikmDefault, esci |-> EsciDefault,
              wdc |-> WdcDefault]

(***************************************************************************)
(* Specifications                                                          *)
(***************************************************************************)
\* md5_id called on two argument tuples.
SpecHashInit == InitHash /\ PriceIdle /\ NormIdle /\ ConvIdle /\ MainIdle
SpecHashNext == Md5Calls /\ UNCHANGED <<priceVars, normVars, convVars, mainVars>>
SpecHash == SpecHashInit /\ [][SpecHashNext]_vars

\* parse_price_currency called on one raw value.
SpecPriceInit == HashIdle /\ InitPrice /\ NormIdle /\ ConvIdle /\ MainIdle
SpecPriceNext == ParseCall /\ UNCHANGED <<hashVars, normVars, convVars, mainVars>>
SpecPrice == SpecPriceInit /\ [][SpecPriceNext]_vars

\* normalize_text called on one value.
SpecNormInit == HashIdle /\ PriceIdle /\ InitNorm /\ ConvIdle /\ MainIdle
SpecNormNext == NormCall /\ UNCHANGED <<hashVars, priceVars, convVars, mainVars>>
SpecNorm == SpecNormInit /\ [][SpecNormNext]_vars

\* convert_wdc run on a source directory.
SpecConvertInit == HashIdle /\ PriceIdle /\ NormIdle /\ InitConvert /\ MainIdle
SpecConvertNext ==
    \/ ConvertNoFiles /\ UNCHANGED <<hashVars, priceVars, normVars, mainVars>>
    \/ ConvertFile /\ UNCHANGED <<hashVars, priceVars, normVars, mainVars>>
SpecConvert == SpecConvertInit /\ [][SpecConvertNext]_vars

Quiet == UNCHANGED <<hashVars, priceVars, normVars, convVars>>

\* Sessions of main.py --load abt_buy over any Abt-Buy directory.
SpecAbtInit ==
    /\ HashIdle /\ PriceIdle /\ NormIdle /\ ConvIdle /\ MainStart
    /\ \E a \in AbtSources : fs = [FsDefault EXCEPT !.abt = a]
SpecAbtNext ==
    \/ StartSession({{"abt_buy"}}) /\ Quiet
    \/ load_abt_buy /\ Quiet
SpecAbt == SpecAbtInit /\ [][SpecAbtNext]_vars

\* The session/log sources.  Every row of a query or interaction file is
\* the projection of a native query (its id, its session, its text) and a
\* native product onto the columns the file happens to have; the field
\* native keeps, row by row, what was projected.
NativeQueries == {[queryId |-> "7", sessionId |-> "s1", query |-> "red  shoes"],
                  [queryId |-> "8", sessionId |-> "s2", query |-> "tv"]}
NativeProducts == {"1", "2"}
NativeEvents == {[q |-> q, p |-> p] : q \in NativeQueries, p \in NativeProducts}

\* The cell of column c in the row of native query q and native product p.
NativeCell(q, p, c) ==
    CASE c = "queryId" -> q.queryId
      [] c = "sessionId" -> q.sessionId
      [] c \in {"query", "searchstring_tokens"} -> q.query
      [] c \in {"itemId", "id", "sku"} -> p
      [] c \in {"price", "pricelog2"} -> "9.5"
      [] OTHER -> NaN

Projected(cols, events) ==
    [exists |-> TRUE, cols |-> cols,
     rows |-> [i \in 1..Len(events) |->
                 [c \in Range(cols) |-> NativeCell(events[i].q, events[i].p, c)]],
     native |-> events]

MaxLogRows == 2

CikmProductFiles ==
    {Projected(c, e) :
        c \in {<<"itemId", "pricelog2">>, <<"id", "price">>, <<"sku", "price">>},
        e \in SeqsUpTo({x \in NativeEvents : x.q.queryId = "7"}, 1)}

CikmQueryFiles ==
    {NoFile} \cup
    {Projected(c, e) :
        c \in {<<"queryId", "sessionId", "query">>, <<"sessionId", "query">>,
               <<"queryId", "searchstring_tokens">>},
        e \in SeqsUpTo({x \in NativeEvents : x.p = "1"}, 1)}

CikmClickFiles ==
    {NoFile} \cup
    {Projected(c, e) :
        c \in {<<"queryId", "itemId">>, <<"sessionId", "itemId">>, <<"queryId", "sku">>},
        e \in SeqsUpTo({x \in NativeEvents : x.q.queryId = "7" \/ x.p = "1"},
                       MaxLogRows)}

CikmViewFiles ==
    {NoFile,
     Projected(<<"sessionId", "itemId">>,
               <<[q |-> CHOOSE q \in NativeQueries : q.queryId = "7", p |-> "1"],
                 [q |-> CHOOSE q \in NativeQueries : q.queryId = "8", p |-> "2"],
                 [q |-> CHOOSE q \in NativeQueries : q.queryId = "7", p |-> "2"]>>)}

CikmSources ==
    {CikmSrc(p, CikmDefault.categories, q, v, k, NoFile) :
        p \in CikmProductFiles, q \in CikmQueryFiles, v \in CikmViewFiles,
        k \in CikmClickFiles}

\* The multi-variant sources: a base directory of files, or of at most
\* MaxVariants variant directories.
MaxVariants == 2
MaxOffers == 1

WdcOfferFiles ==
    {<<>>} \cup
    {<<Named("offers.csv", File(WdcOfferCols, r))>> :
        r \in SeqsUpTo({WdcOffer("1", "$5", "USD"), WdcOffer("1", "call", "USD"),
                         WdcOffer("2", "6.50", NaN)}, MaxOffers)}

WdcPairFiles ==
    {<<>>,
     <<Named("pairs.csv", File(<<"left_id", "right_id", "label">>,
                               <<[left_id |-> "1", right_id |-> "2", label |-> "1"]>>))>>}

WdcEntityFiles ==
    {<<>>} \cup
    {<<Named("offer_to_entity.csv", File(<<"offer_id", "entity_id">>, r))>> :
        r \in SeqsUpTo({[offer_id |-> "1", entity_id |-> "e1"],
                        [offer_id |-> "1", entity_id |-> "e2"],
                        [offer_id |-> "2", entity_id |-> "e1"]}, MaxOffers)}

WdcDirFiles == {o \o p_ \o e : o \in WdcOfferFiles, p_ \in WdcPairFiles,
                                e \in WdcEntityFiles}

WdcVariantNames == <<"wdcproducts80cc20rnd000un_train_large",
                     "wdcproductsmulti50cc50rnd050un_test_small",
                     "wdcproducts20cc80rnd050un_valid">>

WdcSources ==
    {WdcSrc("wdc", f, <<>>) : f \in WdcDirFiles} \cup
    {WdcSrc("wdc", <<>>, [i \in 1..Len(fl) |-> [name |-> WdcVariantNames[i],
                                                 files |-> fl[i]]]) :
        fl \in SeqsUpTo(WdcDirFiles, MaxVariants) \ {<<>>}}

\* A WDC base directory whose second variant directory holds no offers file.
WdcPartial ==
    WdcSrc("wdc", <<>>,
           WdcDefault.subs \o
           <<[name |-> "wdcproductsmulti_test",
              files |-> <<Named("offer_to_entity.csv",
                                File(<<"offer_id", "entity_id">>,
                                     <<[offer_id |-> "1", entity_id |-> "e1"]>>))>>]>>)

MainSources ==
    {[abt |-> a, cikm |-> c, esci |-> e, wdc |-> w] :
        a \in {AbtDefault, AbtMissing}, c \in {CikmDefault, CikmMissing},
        e \in {EsciDefault, EsciMissing}, w \in {WdcDefault, WdcPartial, WdcMissing}}

AllLoads == (SUBSET Range(Order)) \ {{}}

\* Sessions of main.py with any --load selection.
Init ==
    /\ HashIdle /\ PriceIdle /\ NormIdle /\ ConvIdle /\ MainStart
    /\ fs \in MainSources
Next ==
    \/ StartSession(AllLoads) /\ Quiet
    \/ load_abt_buy /\ Quiet
    \/ load_cikm16 /\ Quiet
    \/ load_esci /\ Quiet
    \/ load_wdc /\ Quiet
Spec == Init /\ [][Next]_vars

\* Sessions of main.py --load cikm16 over any session/log directory.
SpecCikmInit ==
    /\ HashIdle /\ PriceIdle /\ NormIdle /\ ConvIdle /\ MainStart
    /\ \E c \in CikmSources : fs = [FsDefault EXCEPT !.cikm = c]
SpecCikmNext ==
    \/ StartSession({{"cikm16"}}) /\ Quiet
    \/ load_cikm16 /\ Quiet
SpecCikm == SpecCikmInit /\ [][SpecCikmNext]_vars

\* Sessions of main.py --load wdc over any multi-variant directory.
SpecWdcInit ==
    /\ HashIdle /\ PriceIdle /\ NormIdle /\ ConvIdle /\ MainStart
    /\ \E w \in WdcSources : fs = [FsDefault EXCEPT !.wdc = w]
SpecWdcNext ==
    \/ StartSession({{"wdc"}}) /\ Quiet
    \/ load_wdc /\ Quiet
SpecWdc == SpecWdcInit /\ [][SpecWdcNext]_vars

\* Interaction logs as the file holds them: the queryId cell of a row may
\* be empty.
ChunkLogCols == {<<"queryId", "itemId">>, <<"queryId", "sessionId", "itemId">>,
                 <<"sessionId", "itemId">>}

ChunkLogRows(cols) ==
    {[c \in Range(cols) |-> w[c]] :
        w \in {[queryId |-> q, sessionId |-> "s1", itemId |-> p] :
                  q \in {"7", ""}, p \in {"1", "2"}}}

ChunkLogFiles ==
    UNION {{File(cols, r) : r \in SeqsUpTo(ChunkLogRows(cols), MaxLogRows)} :
              cols \in ChunkLogCols}

ChunkSources ==
    {CikmSrc(CikmDefault.products, CikmDefault.categories, NoFile, NoFile, k, NoFile) :
        k \in ChunkLogFiles}

\* Sessions of main.py --load cikm16 over a directory with one click log.
SpecChunkInit ==
    /\ HashIdle /\ PriceIdle /\ NormIdle /\ ConvIdle /\ MainStart
    /\ \E c \in ChunkSources : fs = [FsDefault EXCEPT !.cikm = c]
SpecChunkNext ==
    \/ StartSession({{"cikm16"}}) /\ Quiet
    \/ load_cikm16 /\ Quiet
SpecChunk == SpecChunkInit /\ [][SpecChunkNext]_vars

\* Base directories whose variant directories are named with one, several
\* or no split word, each holding an offers and a pairs file.
SplitDirNames == {"wdcproducts80cc20rnd000un_train_large", "wdcproducts_validation",
                  "devtest", "wdcproducts80cc20rnd000un", "TRAINING_set",
                  "wdc_test_small"}

SplitSources ==
    {WdcSrc("wdc", <<>>, [i \in 1..Len(n) |-> [name |-> n[i],
                                               files |-> WdcDefault.subs[1].files]]) :
        n \in SeqsUpTo(SplitDirNames, MaxVariants) \ {<<>>}}

\* Sessions of main.py --load wdc over these directories.
SpecSplitInit ==
    /\ HashIdle /\ PriceIdle /\ NormIdle /\ ConvIdle /\ MainStart
    /\ \E w \in SplitSources : fs = [FsDefault EXCEPT !.wdc = w]
SpecSplitNext ==
    \/ StartSession({{"wdc"}}) /\ Quiet
    \/ load_wdc /\ Quiet
SpecSplit == SpecSplitInit /\ [][SpecSplitNext]_vars

\* Sessions of main.py with any --load over the default directories, with
\* the ESCI files present or missing and the WDC base whole or partial.
SinkSources ==
    {[abt |-> AbtDefault, cikm |-> CikmDefault, esci |-> e, wdc |-> w] :
        e \in {EsciDefault, EsciMissing}, w \in {WdcDefault, WdcPartial}}

SpecSinkInit ==
    /\ HashIdle /\ PriceIdle /\ NormIdle /\ ConvIdle /\ MainStart
    /\ fs \in SinkSources
SpecSinkNext ==
    \/ StartSession(AllLoads) /\ Quiet
    \/ load_abt_buy /\ Quiet
    \/ load_cikm16 /\ Quiet
    \/ load_esci /\ Quiet
    \/ load_wdc /\ Quiet
SpecSink == SpecSinkInit /\ [][SpecSinkNext]_vars

\* Sessions that run one adapter each, or all four, so that the adapters
\* run in every order across sessions.
OrderLoads == {{a} : a \in Range(Order)} \cup {Range(Order)}

SpecOrderInit ==
    /\ HashIdle /\ PriceIdle /\ NormIdle /\ ConvIdle /\ MainStart
    /\ fs \in SinkSources
SpecOrderNext ==
    \/ StartSession(OrderLoads) /\ Quiet
    \/ load_abt_buy /\ Quiet
    \/ load_cikm16 /\ Quiet
    \/ load_esci /\ Quiet
    \/ load_wdc /\ Quiet
SpecOrder == SpecOrderInit /\ [][SpecOrderNext]_vars

\* The converter and then the multi-variant adapter on the converter's output
\* directory.  Each source file holds two offers of its own: a pair file one
\* labelled pair of them, a multi-class file both in one cluster.
PipeFileNames ==
    FileNames \cup {"wdcproducts80cc20rnd000un_valid_large.json.gz",
                    "wdcproducts80cc20rnd000un.json.gz"}

\* The ids of the two offers of the i-th source file.
PipeIds(i) == <<CharAt("12345678", 2 * i - 1), CharAt("12345678", 2 * i)>>

PipeFiles(i) == {[name |-> n, kind |-> k, ids |-> PipeIds(i)] :
                    n \in PipeFileNames, k \in {"pair", "multi"}}

PipeInputs ==
    UNION {{q \in [1..n -> UNION {PipeFiles(i) : i \in 1..n}] :
               \A i \in 1..n : q[i] \in PipeFiles(i)} : n \in 1..MaxFiles}

\* _ensure_csv_append: the rows follow those of an existing file, the header
\* is written only with the first rows.
_ensure_csv_append(files, name, cols, rows) ==
    IF \E i \in 1..Len(files) : files[i].name = name
    THEN [i \in 1..Len(files) |->
             IF files[i].name = name
             THEN [files[i] EXCEPT !.rows = @ \o rows] ELSE files[i]]
    ELSE Append(files, Named(name, File(cols, rows)))

\* The offers of a source file as rows of offers.csv.
PipeOffers(f) == <<WdcOffer(f.ids[1], "$5", "USD"), WdcOffer(f.ids[2], "6.50", NaN)>>

\* What _process_pair_file writes into the variant directory.
PairCsv(files, f) ==
    _ensure_csv_append(
        _ensure_csv_append(files, "offers.csv", WdcOfferCols, PipeOffers(f)),
        "pairs.csv", <<"left_id", "right_id", "label">>,
        <<[left_id |-> f.ids[1], right_id |-> f.ids[2], label |-> "1"]>>)

\* What _process_multi_file writes into the variant directory.
MultiCsv(files, f) ==
    _ensure_csv_append(
        _ensure_csv_append(files, "offers.csv", WdcOfferCols, PipeOffers(f)),
        "offer_to_entity.csv", <<"offer_id", "entity_id">>,
        <<[offer_id |-> f.ids[1], entity_id |-> "7"],
          [offer_id |-> f.ids[2], entity_id |-> "7"]>>)

\* The output directory after the loop body of convert_wdc for file f: the
\* variant directory is output_base / variant, made before the conversion.
ConvertOutput(base, f) ==
    LET variant == _parse_variant_and_split(f.name)[1]
        r == ConvertOne(f)
        subs0 == IF \E i \in 1..Len(base.subs) : base.subs[i].name = variant
                 THEN base.subs
                 ELSE Append(base.subs, [name |-> variant, files |-> <<>>])
        Csv(files) == IF ~r.ok THEN files
                      ELSE IF r.conv = "pair" THEN PairCsv(files, f)
                      ELSE MultiCsv(files, f)
    IN  [base EXCEPT !.subs =
            [i \in 1..Len(subs0) |->
                IF subs0[i].name = variant
                THEN [subs0[i] EXCEPT !.files = Csv(@)] ELSE subs0[i]]]

SpecPipeInit ==
    /\ HashIdle /\ PriceIdle /\ NormIdle /\ MainStart
    /\ cfiles \in PipeInputs /\ cidx = 0 /\ cout = <<>> /\ cpc = "run"
    /\ fs = [FsDefault EXCEPT !.wdc = WdcSrc("wdc", <<>>, <<>>)]
SpecPipeNext ==
    \/ /\ ConvertFile
       /\ fs' = [fs EXCEPT !.wdc = ConvertOutput(fs.wdc, cfiles[cidx + 1])]
       /\ UNCHANGED <<hashVars, priceVars, normVars, db, pc, load, ran, history,
                      sessions>>
    \/ cpc # "run" /\ StartSession({{"wdc"}}) /\ Quiet
    \/ load_wdc /\ Quiet
SpecPipe == SpecPipeInit /\ [][SpecPipeNext]_vars

(***************************************************************************)
(* Claims                                                                  *)
(***************************************************************************)
HasSeparator(p) == \E i \in 1..Len(p) : CharAt(p, i) = Separator

\* The part as md5_id reads it: an absent part is the empty string.
PartText(p) == IF p = None THEN "" ELSE p

NoSeparatorIn(parts) == \A i \in 1..Len(parts) : ~HasSeparator(PartText(parts[i]))

\* C2: when no part of either tuple contains the separator, md5_id feeds the
\* digest the same bytes for two tuples only if they have the same length
\* and the same parts.
C2_SeparatedInputs ==
    (hpc = "done" /\ NoSeparatorIn(hparts[1]) /\ NoSeparatorIn(hparts[2])
        /\ hdigest[1] = hdigest[2])
    => /\ Len(hparts[1]) = Len(hparts[2])
       /\ \A i \in 1..Len(hparts[1]) : PartText(hparts[1][i]) = PartText(hparts[2][i])

\* C2: the three tuples of the specification have been hashed against each
\* other and their digests differ.
C2_Witness ==
    /\ hpc = "done"
    /\ hparts[1] = <<"ds", "a", "1">>
    /\ hparts[2] \in {<<"ds", "a1">>, <<"ds", "ab", "">>}
    /\ hdigest[1] # hdigest[2]

\* C3: a second load of the same source into a sink that held one load of it
\* leaves every table with the rows of the single load twice, the second
\* half equal to the first row for row.
C3_TwiceIsDouble ==
    [][(Len(history) = 1 /\ history[1].ok /\ Len(history') = 2 /\ history'[2].ok
        /\ history'[2].adapter = history[1].adapter)
       => \A t \in Tables : db'[t] = db[t] \o db[t]]_vars

\* C3: the same source was loaded twice and items and pairs were written.
C3_Witness ==
    /\ Len(history) = 2 /\ history[1].ok /\ history[2].ok
    /\ history[1].adapter = history[2].adapter
    /\ Len(db["items"]) >= 4
    /\ Len(db["item_item_pairs"]) >= 2
    /\ db["items"][1].item_id = db["items"][Len(db["items"]) \div 2 + 1].item_id

\* The item_id values the items table holds for a native id of one side.
AbtItemIds(side, id) ==
    {r.item_id : r \in {x \in Range(db["items"]) :
        x.dataset = "abt_buy" /\ x.merchant = side
        /\ x.dataset_item_key = side \o ":" \o Str(id)}}

\* C5: after one load of the two-table source there is one pair per gold
\* mapping row, in order, labelled "match" from "gold", whose ends are the
\* item_id of the first-table, resp. second-table, item of that native id.
C5_GoldPairs ==
    (history = <<[adapter |-> "abt_buy", ok |-> TRUE]>>)
    => LET m == fs.abt.matches.rows
           pairs == db["item_item_pairs"]
       IN  /\ Len(pairs) = Len(m)
           /\ \A i \in 1..Len(m) :
                 /\ pairs[i].label = "match"
                 /\ pairs[i].pair_source = "gold"
                 /\ pairs[i].left_item_id = "abt_buy|tablea|" \o m[i].tablea_id \o "|"
                 /\ pairs[i].right_item_id = "abt_buy|tableb|" \o m[i].tableb_id \o "|"
                 /\ AbtItemIds("tablea", m[i].tablea_id) \subseteq {pairs[i].left_item_id}
                 /\ AbtItemIds("tableb", m[i].tableb_id) \subseteq {pairs[i].right_item_id}

\* C5: a gold row whose two native ids both occur in the item tables.
C5_Witness ==
    /\ history = <<[adapter |-> "abt_buy", ok |-> TRUE]>>
    /\ Len(db["item_item_pairs"]) = 2
    /\ \E i \in 1..2 :
          /\ AbtItemIds("tablea", fs.abt.matches.rows[i].tablea_id) # {}
          /\ AbtItemIds("tableb", fs.abt.matches.rows[i].tableb_id) # {}

PriceCurrencySyms == {"", "$", "€", "£", "¥"}
PlainInts == {"0", "5", "19", "007", "1234"}
GroupedInts == {"1,234", "12,345", "1,234,567"}
ShortFracs == {"", ".5", ".50", ".99"}

\* The value of a literal with comma thousands-separators, as a float's text.
LiteralValue(ip, frac) == FloatOfLiteral(DropCommas(ip) \o frac)

\* C7: for an optional currency symbol followed by a numeric literal with
\* comma thousands-separators and at most 2 decimal digits,
\* parse_price_currency returns the value of the whole literal and the ISO
\* code of the symbol; "n/a" gives (None, None).
C7_PriceOfLiteral ==
    ppc = "done" =>
      /\ \A y \in PriceCurrencySyms, n \in PlainInts \cup GroupedInts, f \in ShortFracs :
            raw = y \o n \o f => parsed = <<LiteralValue(n, f), _cur_map(y)>>
      /\ raw = "$19.99" => parsed = <<"19.99", "USD">>
      /\ raw = "1234" => parsed = <<"1234.0", None>>
      /\ raw = "€1,234.50" => parsed = <<"1234.5", "EUR">>
      /\ raw = "n/a" => parsed = <<None, None>>

\* C9: convert_wdc hands every compressed file of multi-class records (named
\* wdcproductsmulti...) to the multi-class conversion, which writes
\* offers.csv and offer_to_entity.csv, and every compressed file of pairwise
\* records to the pair conversion, which writes offers.csv and pairs.csv.
C9_Routing ==
    \A i \in 1..Len(cout) :
        LET e == cout[i]
        IN  EndsWith(e.file.name, ".json.gz") =>
              /\ (e.file.kind = "multi"
                     /\ StartsWith(Lower(e.variant_dir), "wdcproductsmulti"))
                  => (e.conv = "multi" /\ e.ok
                      /\ e.wrote = {"offers.csv", "offer_to_entity.csv"})
              /\ e.file.kind = "pair"
                  => (e.conv = "pair" /\ e.ok /\ e.wrote = {"offers.csv", "pairs.csv"})

\* C10: when an adapter of a session fails, every other adapter selected in
\* that session is still run.
C10_SiblingsRun ==
    pc = "crashed" =>
        \A a \in load \ {history[Len(history)].adapter} : a \in ran

\* The native id of an item row, without the side or locale its key carries.
NativeId(r) ==
    CASE r.dataset = "abt_buy" ->
           SubSeq(r.dataset_item_key, Len(r.merchant) + 2, Len(r.dataset_item_key))
      [] r.dataset = "esci" ->
           SubSeq(r.dataset_item_key, Len(Str(r.locale)) + 2, Len(r.dataset_item_key))
      [] OTHER -> r.dataset_item_key

\* The source of an item row: its dataset and its side, locale or variant.
SourceOf(r) == <<r.dataset, r.merchant, r.locale, r.variant>>

\* C1: two item rows with the same native id from different sources never
\* have the same item_id.
C1_SourcesNeverCollide ==
    \A r1, r2 \in Range(db["items"]) :
        (NativeId(r1) = NativeId(r2) /\ SourceOf(r1) # SourceOf(r2))
        => r1.item_id # r2.item_id

IsNull(v) == v \in {None, NaN, "nan"}

\* C6: in every item row a non-null currency comes with a non-null price.
C6_CurrencyNeedsPrice ==
    \A r \in Range(db["items"]) : ~IsNull(r.currency) => ~IsNull(r.price)

\* C8: no item_id of item_entity is linked to two different entity_id values.
C8_ManyToOne ==
    \A l1, l2 \in Range(db["item_entity"]) :
        l1.item_id = l2.item_id => l1.entity_id = l2.entity_id

\* The native events behind the rows of the interaction logs, in load order.
CikmEvents(src) ==
    (IF src.views.exists THEN src.views.native ELSE <<>>)
    \o (IF src.clicks.exists THEN src.clicks.native ELSE <<>>)
    \o (IF src.purchases.exists THEN src.purchases.native ELSE <<>>)

\* The query_id _load_queries gives native query q under the query file's columns.
QueryLoaderId(src, e) == CikmQueries(Projected(src.queries.cols, <<e>>))[1].query_id

\* The item_id _load_products gives native product p under the product file's columns.
ItemLoaderId(src, e) ==
    CikmItems([src EXCEPT !.products = Projected(src.products.cols, <<e>>)])[1].item_id

\* C4: after a load of the session/log source every label row carries the
\* query_id the query loader computes for its native query and the item_id
\* the item loader computes for its native product.
C4_LabelsMatchLoaders ==
    (history = <<[adapter |-> "cikm16", ok |-> TRUE]>>)
    => LET ev == CikmEvents(fs.cikm)
           labels == db["query_item_labels"]
       IN  /\ Len(labels) = Len(ev)
           /\ \A k \in 1..Len(ev) :
                 /\ fs.cikm.queries.exists
                    => labels[k].query_id = QueryLoaderId(fs.cikm, ev[k])
                 /\ labels[k].item_id = ItemLoaderId(fs.cikm, ev[k])

\* Whether the resolver finds a column of the role among cols.
Resolved(cols, Role(_)) == \E i \in 1..Len(cols) : Role(cols[i])

\* C11: when products.csv exists the session/log adapter raises nothing and
\* emits one item row per product row and one query row per query row; a
\* field whose role has no column in the file is None in every emitted row,
\* the identifier fields included.
C11_UnresolvedIsAbsent ==
    /\ (pc = "crashed" /\ history[Len(history)].adapter = "cikm16")
        => ~fs.cikm.products.exists
    /\ (history = <<[adapter |-> "cikm16", ok |-> TRUE]>>)
        => LET p == fs.cikm.products
               q == fs.cikm.queries
               items == db["items"]
               queries == db["queries"]
           IN  /\ Len(items) = Len(p.rows)
               /\ \A i \in 1..Len(items) :
                     /\ ~Resolved(p.cols, IsIdCol)
                         => (items[i].item_id = None
                             /\ items[i].dataset_item_key = None)
                     /\ ~Resolved(p.cols, IsTitleCol) => items[i].title = None
                     /\ ~Resolved(p.cols, IsDescCol) => items[i].description = None
                     /\ ~Resolved(p.cols, IsBrandCol) => items[i].brand = None
                     /\ ~Resolved(p.cols, IsPriceCol)
                         => (items[i].price = None /\ items[i].currency = None)
               /\ q.exists => Len(queries) = Len(q.rows)
               /\ q.exists =>
                    \A i \in 1..Len(queries) :
                     /\ (~Resolved(q.cols, IsQueryIdCol)
                            /\ ~Resolved(q.cols, IsQueryTextCol))
                         => queries[i].query_id = None
                     /\ ~Resolved(q.cols, IsQueryTextCol)
                         => queries[i].query_text = None
                     /\ ~Resolved(q.cols, IsLocaleCol) => queries[i].locale = None
                     /\ ~Resolved(q.cols, IsSessionCol)
                         => queries[i].session_id = None
                     /\ ~Resolved(q.cols, IsEventDateCol)
                         => queries[i].event_date = None

\* The label rows _load_interactions emits for a log read in chunks of size.
LabelsBySize(size, f, label_family) ==
    ChunksLoop(size, EmptyDb, f.rows, f.cols, label_family)["query_item_labels"]

\* C12: after a load of a click log the labels table holds one row per log
\* row, and they are the rows the adapter emits, in order, under every
\* chunk size.
C12_ChunkingIsInvisible ==
    (history = <<[adapter |-> "cikm16", ok |-> TRUE]>>)
    => LET f == fs.cikm.clicks
           labels == db["query_item_labels"]
       IN  /\ Len(labels) = Len(f.rows)
           /\ \A size \in 1..(MaxLogRows + 1) :
                 LabelsBySize(size, f, "click") = labels

\* The counting half of C12: one label row per log row under every chunk size.
C12_OneRowPerInputRow ==
    (history = <<[adapter |-> "cikm16", ok |-> TRUE]>>)
    => LET f == fs.cikm.clicks
       IN  /\ Len(db["query_item_labels"]) = Len(f.rows)
           /\ \A size \in 1..(MaxLogRows + 1) :
                 Len(LabelsBySize(size, f, "click")) = Len(f.rows)

\* The split vocabulary of the multi-variant adapter, in its order.
SplitVocabulary == <<"train", "val", "valid", "validation", "test", "dev">>

\* The positions of the vocabulary words that occur in the lower-cased name.
Occurring(name) ==
    {i \in 1..Len(SplitVocabulary) : Contains(Lower(name), SplitVocabulary[i])}

\* The split the claim gives a directory name.
ExpectedSplit(name) ==
    IF Occurring(name) = {} THEN None
    ELSE SplitVocabulary[CHOOSE i \in Occurring(name) : \A j \in Occurring(name) : i <= j]

\* C13: after load_wdc over variant subdirectories, every subdirectory has
\* rows, and every item and pair row of a subdirectory carries the first
\* vocabulary word (in vocabulary order) that occurs in the lower-cased
\* directory name: "train" when the name contains "train", None exactly
\* when no vocabulary word occurs.
C13_SplitFromDirName ==
    (history # <<>> /\ \A i \in 1..Len(history) : history[i].ok)
    => \A k \in 1..Len(fs.wdc.subs) :
          LET name == fs.wdc.subs[k].name
              rows == {r \in Range(db["items"]) \cup Range(db["item_item_pairs"]) :
                          r.variant = name}
          IN  /\ rows # {}
              /\ \A r \in rows :
                    /\ r.split = ExpectedSplit(name)
                    /\ (r.split = None) <=> (Occurring(name) = {})
                    /\ Contains(Lower(name), "train") => r.split = "train"

\* C13: directories with several split words, with an upper-case split
\* word and with none have been loaded.
C13_Witness ==
    /\ history = <<[adapter |-> "wdc", ok |-> TRUE]>>
    /\ \E r1, r2 \in Range(db["items"]) :
          /\ r1.variant \in {"devtest", "TRAINING_set"}
          /\ r1.split \in {"test", "train"}
          /\ r2.variant = "wdcproducts80cc20rnd000un" /\ r2.split = None

\* append_df on the sink as it is: nothing changes for an absent or empty
\* batch; a batch of rows the table already holds is added whole, after the
\* existing rows, and no other table changes.
AppendContract ==
    \A t \in Tables :
        /\ append_df(db, t, NoneFrame) = db
        /\ append_df(db, t, DataFrame(<<>>)) = db
        /\ Len(db[t]) > 0 =>
              LET d2 == append_df(db, t, DataFrame(db[t]))
              IN  /\ d2[t] = db[t] \o db[t]
                  /\ \A u \in Tables \ {t} : d2[u] = db[u]

\* Every step keeps the rows every table held, in place and unchanged.
RowsKept ==
    \A t \in Tables :
        /\ Len(db'[t]) >= Len(db[t])
        /\ SubSeq(db'[t], 1, Len(db[t])) = db[t]

\* C14: the sink is append-only: append_df changes nothing for an empty or
\* absent batch and otherwise adds exactly the batch to the named table,
\* duplicates included, and no adapter invocation of any session removes
\* or modifies a row a table already holds.
C14_AppendOnly == [](AppendContract) /\ [][RowsKept]_vars

\* C14: two adapters have appended to items, one of them twice.
C14_Witness ==
    /\ Len(history) >= 3
    /\ \A i \in 1..Len(history) : history[i].ok
    /\ \E i, j \in 1..Len(db["items"]) :
          i < j /\ db["items"][i] = db["items"][j]
    /\ \E r1, r2 \in Range(db["items"]) : r1.dataset # r2.dataset

\* The sink one invocation of adapter a leaves when it is run alone on an
\* empty sink over the session's sources (a failing adapter leaves what it
\* wrote before it raised).
AdapterOut(a) ==
    CASE a = "abt_buy" ->
            IF fs.abt.TableA.exists /\ fs.abt.TableB.exists /\ fs.abt.matches.exists
            THEN AbtLoaded(EmptyDb, fs.abt) ELSE EmptyDb
      [] a = "cikm16" ->
            IF fs.cikm.products.exists THEN CikmLoaded(EmptyDb, fs.cikm) ELSE EmptyDb
      [] a = "esci" ->
            IF fs.esci.products.exists /\ fs.esci.examples.exists
            THEN EsciLoaded(EmptyDb, fs.esci) ELSE EmptyDb
      [] a = "wdc" ->
            IF fs.wdc.exists THEN WdcLoaded(EmptyDb, fs.wdc).db ELSE EmptyDb

\* How many times adapter a was invoked so far.
Times(a) == Cardinality({i \in 1..Len(history) : history[i].adapter = a})

\* How many times row r occurs in the sequence.
RowCount(rows, r) == Cardinality({i \in 1..Len(rows) : rows[i] = r})

\* The sum of F over the four adapters.
SumOverAdapters(F(_)) == F("abt_buy") + F("cikm16") + F("esci") + F("wdc")

\* C15: whatever the order of the adapter invocations so far and whichever
\* adapters were left out, every table holds, as a multiset, exactly the
\* rows each invoked adapter appends when run alone on an empty sink, once
\* per invocation.
C15_OrderIndependent ==
    \A alone \in {[a \in Range(Order) |-> AdapterOut(a)]} :
        \A t \in Tables :
          /\ Len(db[t]) = SumOverAdapters(LAMBDA a : Times(a) * Len(alone[a][t]))
          /\ \A r \in Range(db[t]) :
                RowCount(db[t], r) =
                    SumOverAdapters(LAMBDA a : Times(a) * RowCount(alone[a][t], r))

\* C15: the multi-variant adapter ran before the two-table adapter, against
\* the order of main, the other two adapters were left out, and both
\* appended items.
C15_Witness ==
    /\ Len(history) = 2
    /\ history[1] = [adapter |-> "wdc", ok |-> TRUE]
    /\ history[2] = [adapter |-> "abt_buy", ok |-> TRUE]
    /\ \E r1, r2 \in Range(db["items"]) : r1.dataset = "wdc" /\ r2.dataset = "abt_buy"

\* The text s with every span matched by <[^>]+> deleted.
RECURSIVE DeleteTags(_)
DeleteTags(s) ==
    IF s = "" THEN ""
    ELSE IF TagEnd(s) > 0 THEN DeleteTags(SubSeq(s, TagEnd(s) + 1, Len(s)))
    ELSE Head(s) \o DeleteTags(Tail(s))

\* s holds a span matched by <[^>]+>.
HasTag(s) == \E i \in 1..Len(s) : TagEnd(SubSeq(s, i, Len(s))) > 0

\* s with its whitespace characters deleted.
RECURSIVE Squeeze(_)
Squeeze(s) ==
    IF s = "" THEN ""
    ELSE IF Head(s) \in WsChars THEN Squeeze(Tail(s))
    ELSE Head(s) \o Squeeze(Tail(s))

\* C16: normalize_text returns None for None, and for any other value the
\* NFKC form of its text with every <...> span removed, then every run of
\* whitespace collapsed to one space and the ends trimmed, letter case kept.
C16_TagsRemoved ==
    npc = "done" =>
        nout = IF ntext = None THEN None
               ELSE Strip(CollapseWs(DeleteTags(NFKC(Str(ntext)))))

\* C16: the parts of the statement that do not depend on what takes the
\* place of a tag: None for None, no tag span and no whitespace other than
\* single inner spaces in the result, the characters outside tags kept in
\* order and in their case, and the example of the statement.
C16_CleanText ==
    npc = "done" =>
        /\ ntext = None <=> nout = None
        /\ ntext # None =>
              /\ ~HasTag(nout)
              /\ \A i \in 1..Len(nout) :
                    /\ CharAt(nout, i) \in WsChars => CharAt(nout, i) = " "
                    /\ CharAt(nout, i) = " " =>
                          i \notin {1, Len(nout)} /\ CharAt(nout, i + 1) # " "
              /\ Squeeze(nout) = Squeeze(DeleteTags(NFKC(Str(ntext))))
        /\ ntext = "<b>Hello</b>   world" => nout = "Hello world"

\* C17: every item and pair row loaded from the output of a converted file
\* carries the split that _parse_variant_and_split infers from the name of
\* that file, and so does every entity row of a multi-class file.
C17_SplitEndToEnd ==
    \A i \in 1..Len(cout) :
        cout[i].ok =>
            LET f == cout[i].file
                split == _parse_variant_and_split(f.name)[2]
                ids == {WdcItemId(f.ids[1]), WdcItemId(f.ids[2])}
            IN  /\ \A r \in Range(db["items"]) :
                      r.item_id \in ids => r.split = split
                /\ \A r \in Range(db["item_item_pairs"]) :
                      r.left_item_id \in ids => r.split = split
                /\ cout[i].conv = "multi" =>
                      \A r \in Range(db["entities"]) :
                          "split" \in DOMAIN r /\ r.split = split

\* C17: the directory the converter writes is named by the variant token
\* alone, so that the adapter infers from it the split of the file name only
\* when the variant token itself spells it.
C17_DirNameIsVariant ==
    \A i \in 1..Len(fs.wdc.subs) :
        \E j \in 1..Len(cout) :
            fs.wdc.subs[i].name = _parse_variant_and_split(cout[j].file.name)[1]

====
